---------------------------- MODULE Spec2Model ----------------------------
(* A model of watch_site_changes.py: the visible-text pipeline            *)
(* (VisibleTextExtractor, normalize_visible_text, content_hash), the      *)
(* snapshot store (load_state, save_state, parse_snapshot) on a small     *)
(* file system, the watch loop run_watcher, and print_diff.  The pure     *)
(* functions are also exercised on their own, in specifications of their  *)
(* own (SpecExtractor, SpecDiff, SpecNormalize).                          *)
(*                                                                        *)
(* Python str values are sequences of one-character strings.  Values that *)
(* come out of json.loads carry their type in the field t.                *)
EXTENDS Integers, Sequences, FiniteSets, TLC

-----------------------------------------------------------------------------
(* Bounds of the model. *)

\* the clock stops ticking here, which bounds the number of cycles
MaxClock == 2

\* number of write steps tmp.write_text takes after opening the file
DocChunks == 1

-----------------------------------------------------------------------------
(* Characters and the string methods the program uses. *)

Digits == {"0", "1", "2", "3", "4", "5", "6", "7", "8", "9"}

Letters ==
  {"a", "b", "c", "d", "e", "f", "g", "h", "i", "j", "k", "l", "m",
   "n", "o", "p", "q", "r", "s", "t", "u", "v", "w", "x", "y", "z",
   "A", "B", "C", "D", "E", "F", "G", "H", "I", "J", "K", "L", "M",
   "N", "O", "P", "Q", "R", "S", "T", "U", "V", "W", "X", "Y", "Z"}

\* \w of the re module
IsWord(c) == c \in Digits \cup Letters \cup {"_"}

\* \s of the re module, and what str.strip() removes
IsSpace(c) == c \in {" ", "\t", "\n", "\r", "\f"}

RECURSIVE LStrip(_)
LStrip(s) ==
  IF s # <<>> /\ IsSpace(Head(s)) THEN LStrip(Tail(s)) ELSE s

RECURSIVE RStrip(_)
RStrip(s) ==
  IF s # <<>> /\ IsSpace(s[Len(s)]) THEN RStrip(SubSeq(s, 1, Len(s) - 1)) ELSE s

\* str.strip()
Strip(s) == RStrip(LStrip(s))

\* "\n".join(parts)
RECURSIVE JoinLines(_)
JoinLines(parts) ==
  IF parts = <<>> THEN <<>>
  ELSE IF Len(parts) = 1 THEN parts[1]
  ELSE parts[1] \o <<"\n">> \o JoinLines(Tail(parts))

\* str.lower() on the tag names the model uses
Lower(tag) ==
  CASE tag = "SCRIPT" -> "script"
    [] tag = "Script" -> "script"
    [] tag = "STYLE" -> "style"
    [] tag = "NOSCRIPT" -> "noscript"
    [] tag = "P" -> "p"
    [] OTHER -> tag

-----------------------------------------------------------------------------
(* The regular expressions of normalize_visible_text.  A position i in    *)
(* 0..Len(s) lies between s[i] and s[i+1].                                *)

WordAt(s, i) == i >= 1 /\ i <= Len(s) /\ IsWord(s[i])

\* \b at position i
Boundary(s, i) == WordAt(s, i) # WordAt(s, i + 1)

\* \d{n} at position i: the position after it, or -1
MatchDigits(s, i, n) ==
  IF i >= 0 /\ i + n <= Len(s) /\ \A k \in 1..n : s[i + k] \in Digits
  THEN i + n ELSE -1

\* one literal character at position i: the position after it, or -1
MatchChar(s, i, c) ==
  IF i >= 0 /\ i + 1 <= Len(s) /\ s[i + 1] = c THEN i + 1 ELSE -1

\* (?:AM|PM|am|pm) at position i
MatchMeridiem(s, i) ==
  IF i >= 0 /\ i + 2 <= Len(s)
     /\ <<s[i + 1], s[i + 2]>> \in {<<"A", "M">>, <<"P", "M">>, <<"a", "m">>, <<"p", "m">>}
  THEN i + 2 ELSE -1

\* \s at position i
MatchSpace(s, i) ==
  IF i >= 0 /\ i + 1 <= Len(s) /\ IsSpace(s[i + 1]) THEN i + 1 ELSE -1

\* The clock-time pattern \b\d{1,2}:\d{2}(?::\d{2})?\s?(?:AM|PM|am|pm)?\b
\* as the backtracking matcher runs it: every quantifier takes the longer
\* alternative first and gives way when the rest does not match.  Each
\* operator is the rest of the pattern from a position: the position after
\* the match, or -1.

\* (?:AM|PM|am|pm)?\b
AfterSpace(s, d) ==
  LET e == MatchMeridiem(s, d)
  IN IF e >= 0 /\ Boundary(s, e) THEN e
     ELSE IF Boundary(s, d) THEN d
     ELSE -1

\* \s?(?:AM|PM|am|pm)?\b
AfterSeconds(s, c) ==
  LET d == MatchSpace(s, c)
      r == IF d >= 0 THEN AfterSpace(s, d) ELSE -1
  IN IF r >= 0 THEN r ELSE AfterSpace(s, c)

\* :\d{2}(?::\d{2})?\s?(?:AM|PM|am|pm)?\b
AfterHour(s, a) ==
  LET b == MatchDigits(s, MatchChar(s, a, ":"), 2)
      c == MatchDigits(s, MatchChar(s, b, ":"), 2)
      r == IF c >= 0 THEN AfterSeconds(s, c) ELSE -1
  IN IF b < 0 THEN -1
     ELSE IF r >= 0 THEN r
     ELSE AfterSeconds(s, b)

\* the whole pattern at position i
MatchTime(s, i) ==
  LET two == IF MatchDigits(s, i, 2) >= 0 THEN AfterHour(s, i + 2) ELSE -1
  IN IF ~Boundary(s, i) \/ MatchDigits(s, i, 1) < 0 THEN -1
     ELSE IF two >= 0 THEN two
     ELSE AfterHour(s, i + 1)

\* \b\d{4}-\d{2}-\d{2}\b at position i
MatchDate(s, i) ==
  LET a == IF Boundary(s, i) THEN MatchDigits(s, i, 4) ELSE -1
      b == MatchDigits(s, MatchChar(s, a, "-"), 2)
      c == MatchDigits(s, MatchChar(s, b, "-"), 2)
  IN IF c >= 0 /\ Boundary(s, c) THEN c ELSE -1

\* re.sub(time pattern, "", s): leftmost matches, scanned on the original s
RECURSIVE SubTime(_, _)
SubTime(s, i) ==
  IF i >= Len(s) THEN <<>>
  ELSE LET e == MatchTime(s, i)
       IN IF e >= 0 THEN SubTime(s, e) ELSE <<s[i + 1]>> \o SubTime(s, i + 1)

\* re.sub(date pattern, "", s)
RECURSIVE SubDate(_, _)
SubDate(s, i) ==
  IF i >= Len(s) THEN <<>>
  ELSE LET e == MatchDate(s, i)
       IN IF e >= 0 THEN SubDate(s, e) ELSE <<s[i + 1]>> \o SubDate(s, i + 1)

\* re.sub(r"\s+", " ", s)
RECURSIVE SubSpaces(_)
SubSpaces(s) ==
  IF s = <<>> THEN <<>>
  ELSE IF IsSpace(Head(s)) THEN <<" ">> \o SubSpaces(LStrip(s))
  ELSE <<Head(s)>> \o SubSpaces(Tail(s))

\* the three substitutions and the strip applied to one fragment
NormalizeLine(line) == Strip(SubSpaces(SubDate(SubTime(line, 0), 0)))

-----------------------------------------------------------------------------
(* VisibleTextExtractor.  An HTML document is the sequence of callbacks   *)
(* HTMLParser.feed makes for it: start tags, end tags and text.  An event *)
(* of kind "reject" stands for markup on which feed raises.               *)

StartTag(tag) == [kind |-> "start", tag |-> tag]
EndTag(tag) == [kind |-> "end", tag |-> tag]
Data(d) == [kind |-> "data", data |-> d]
Reject == [kind |-> "reject"]

SkipTags == {"script", "style", "noscript"}

\* VisibleTextExtractor.__init__
NewExtractor == [skip_depth |-> 0, parts |-> <<>>]

handle_starttag(ex, tag) ==
  IF Lower(tag) \in SkipTags
  THEN [ex EXCEPT !.skip_depth = ex.skip_depth + 1]
  ELSE ex

handle_endtag(ex, tag) ==
  IF Lower(tag) \in SkipTags /\ ex.skip_depth > 0
  THEN [ex EXCEPT !.skip_depth = ex.skip_depth - 1]
  ELSE ex

handle_data(ex, data) ==
  IF ex.skip_depth = 0 /\ Strip(data) # <<>>
  THEN [ex EXCEPT !.parts = Append(ex.parts, Strip(data))]
  ELSE ex

\* one callback of the parser
HandleEvent(ex, ev) ==
  CASE ev.kind = "start" -> handle_starttag(ex, ev.tag)
    [] ev.kind = "end" -> handle_endtag(ex, ev.tag)
    [] ev.kind = "data" -> handle_data(ex, ev.data)
    [] OTHER -> ex

\* extractor.feed(html); extractor.close()
RECURSIVE Feed(_, _)
Feed(ex, html) ==
  IF html = <<>> THEN ex ELSE Feed(HandleEvent(ex, Head(html)), Tail(html))

\* feed raises on this document
FeedRaises(html) == \E i \in 1..Len(html) : html[i].kind = "reject"

\* the loop of normalize_visible_text over extractor.lines()
RECURSIVE NormalizeParts(_)
NormalizeParts(parts) ==
  IF parts = <<>> THEN <<>>
  ELSE LET raw == Strip(Head(parts))
           line == NormalizeLine(raw)
           rest == NormalizeParts(Tail(parts))
       IN IF raw = <<>> \/ line = <<>> THEN rest ELSE <<line>> \o rest

normalize_visible_text(html) ==
  JoinLines(NormalizeParts(Feed(NewExtractor, html).parts))

\* SHA-256 as a collision-free digest: the hex string of a text determines
\* the text, and no digest is the text itself.
content_hash(text) == <<"#">> \o text

-----------------------------------------------------------------------------
(* print_diff.  difflib.ndiff on lists of lines: Differ.compare walks the  *)
(* opcodes of SequenceMatcher, whose matching blocks come from             *)
(* find_longest_match applied to the whole lists, then to what is left of  *)
(* the block and to what is right of it.  No line is junk (linejunk is     *)
(* None), and the lists stay below the 200 lines at which autojunk starts. *)

LineBreaks == {"\n", "\r", "\f"}

\* str.splitlines()
RECURSIVE splitlines(_)
splitlines(s) ==
  IF s = <<>> THEN <<>>
  ELSE IF \A i \in 1..Len(s) : s[i] \notin LineBreaks THEN <<s>>
  ELSE LET i == CHOOSE k \in 1..Len(s) :
                  s[k] \in LineBreaks /\ \A j \in 1..(k - 1) : s[j] \notin LineBreaks
           n == IF s[i] = "\r" /\ i < Len(s) /\ s[i + 1] = "\n" THEN i + 1 ELSE i
       IN <<SubSeq(s, 1, i - 1)>> \o splitlines(SubSeq(s, n + 1, Len(s)))

\* the blocks a[i .. i+k-1] = b[j .. j+k-1]
Blocks(a, b) ==
  {m \in (1..Len(a)) \X (1..Len(b)) \X (1..Len(a)) :
     /\ m[1] + m[3] - 1 <= Len(a)
     /\ m[2] + m[3] - 1 <= Len(b)
     /\ \A d \in 0..(m[3] - 1) : a[m[1] + d] = b[m[2] + d]}

\* SequenceMatcher.find_longest_match: a longest block; of those the one
\* that starts earliest in a, and of those the one that starts earliest in b
find_longest_match(a, b) ==
  CHOOSE m \in Blocks(a, b) :
    \A o \in Blocks(a, b) :
      \/ o[3] < m[3]
      \/ o[3] = m[3] /\ m[1] < o[1]
      \/ o[3] = m[3] /\ m[1] = o[1] /\ m[2] <= o[2]

DiffLine(tag, line) == [tag |-> tag, line |-> line]

\* Differ._dump
dump(tag, lines) == [i \in 1..Len(lines) |-> DiffLine(tag, lines[i])]

\* difflib.ndiff(a, b) without its "? " hint lines: "  " for the lines of a
\* matching block, and between two blocks "- " for the lines of a and "+ "
\* for the lines of b (Differ._plain_replace puts the shorter side first;
\* Differ._fancy_replace keeps the order within each side)
RECURSIVE ndiff(_, _)
ndiff(a, b) ==
  IF Blocks(a, b) = {}
  THEN IF Len(b) < Len(a)
       THEN dump("+", b) \o dump("-", a)
       ELSE dump("-", a) \o dump("+", b)
  ELSE LET m == find_longest_match(a, b)
           i == m[1]
           j == m[2]
           k == m[3]
       IN ndiff(SubSeq(a, 1, i - 1), SubSeq(b, 1, j - 1))
          \o dump(" ", SubSeq(a, i, i + k - 1))
          \o ndiff(SubSeq(a, i + k, Len(a)), SubSeq(b, j + k, Len(b)))

\* [d[2:] for d in diff if d.startswith(tag + " ")]
Tagged(diff, tag) ==
  LET sel == SelectSeq(diff, LAMBDA d : d.tag = tag)
  IN [i \in 1..Len(sel) |-> sel[i].line]

\* lines[:max_lines] for max_lines >= 0
Shown(lines, max_lines) ==
  SubSeq(lines, 1, IF Len(lines) < max_lines THEN Len(lines) ELSE max_lines)

\* a _print_group that never prints the summary line
print_group_no_summary(label, lines, prefix, max_lines) ==
  IF lines = <<>> THEN <<>>
  ELSE <<[kind |-> "label", label |-> label]>>
       \o [i \in 1..Len(Shown(lines, max_lines)) |->
             [kind |-> "line", prefix |-> prefix, line |-> lines[i]]]

\* print_diff._print_group: what it prints, line by line
print_group(label, lines, prefix, max_lines) ==
  IF lines = <<>> THEN <<>>
  ELSE <<[kind |-> "label", label |-> label]>>
       \o [i \in 1..Len(Shown(lines, max_lines)) |->
             [kind |-> "line", prefix |-> prefix, line |-> lines[i]]]
       \o IF Len(lines) > max_lines
          THEN <<[kind |-> "more", n |-> Len(lines) - max_lines]>>
          ELSE <<>>

-----------------------------------------------------------------------------
(* Values of json.loads / json.dumps, tagged with their type. *)

JStr(s) == [t |-> "str", v |-> s]
JInt(n) == [t |-> "int", v |-> n]
JNull == [t |-> "null"]
JArray == [t |-> "array"]
JObject(m) == [t |-> "object", m |-> m]

\* Python's None is what json gives for null
None == JNull

\* dict.get(key, default)
Get(obj, key, default) ==
  IF key \in DOMAIN obj.m THEN obj.m[key] ELSE default

\* an assignment that makes a new mapping of the one key
PutAlone(obj, key, value) == JObject([k \in {key} |-> value])

\* dict[key] = value
Put(obj, key, value) ==
  JObject([k \in DOMAIN obj.m \cup {key} |-> IF k = key THEN value ELSE obj.m[k]])

\* the dataclass Snapshot
Snapshot(url, hash, text, updated) ==
  [t |-> "Snapshot", url |-> url, hash |-> hash, text |-> text, updated |-> updated]

\* what the loop stores under state[url]
Entry(h, text, now) ==
  JObject([hash |-> JStr(h), text |-> JStr(text), updated |-> JInt(now)])

\* parse_snapshot without the isinstance check of the hash
parse_snapshot_unchecked(raw, url) ==
  LET snap == Get(raw, url, None)
  IN IF snap.t # "object" THEN None
     ELSE LET h == Get(snap, "hash", None)
              t == Get(snap, "text", JStr(<<>>))
              u == Get(snap, "updated", JInt(0))
          IN Snapshot(url,
                      IF h.t # "str" THEN <<>> ELSE h.v,
                      IF t.t # "str" THEN <<>> ELSE t.v,
                      IF u.t # "int" THEN 0 ELSE u.v)

parse_snapshot(raw, url) ==
  LET snap == Get(raw, url, None)
  IN IF snap.t # "object" THEN None
     ELSE LET h == Get(snap, "hash", None)
              t == Get(snap, "text", JStr(<<>>))
              u == Get(snap, "updated", JInt(0))
          IN IF h.t # "str" THEN None
             ELSE Snapshot(url, h.v,
                           IF t.t # "str" THEN <<>> ELSE t.v,
                           IF u.t # "int" THEN 0 ELSE u.v)

-----------------------------------------------------------------------------
(* File contents.  json.dumps(data, indent=2) + "\n" is written in        *)
(* DocChunks pieces; piece k of the text of document d is <<d, k>>.       *)

Bytes(chunks) == [kind |-> "bytes", chunks |-> chunks]

\* a file that exists and cannot be read, and one that is not JSON
Unreadable == [kind |-> "unreadable"]
Garbage == [kind |-> "garbage"]

\* a file name that is not bound
NoFile == [kind |-> "missing"]

\* a range of a file that was never written
Hole == <<None, 0>>

\* json.dumps(data, indent=2) + "\n"
json_dumps(data) == [k \in 1..DocChunks |-> <<data, k>>]

\* the bytes are the whole text of one document
IsDocument(content) ==
  /\ content.kind = "bytes"
  /\ Len(content.chunks) = DocChunks
  /\ content.chunks = json_dumps(content.chunks[1][1])

\* path.read_text() or json.loads raises
LoadRaises(content) == ~IsDocument(content)

load_state(content) ==
  IF content.kind = "missing" THEN JObject(<<>>)
  ELSE IF LoadRaises(content) THEN JObject(<<>>)
  ELSE content.chunks[1][1]

\* a file holding the complete text of document d
FileOf(d) == Bytes(json_dumps(d))

\* write(2) of one piece at offset pos (counted in pieces)
WriteAt(chunks, pos, piece) ==
  [k \in 1..(IF Len(chunks) > pos THEN Len(chunks) ELSE pos + 1) |->
     IF k = pos + 1 THEN piece
     ELSE IF k <= Len(chunks) THEN chunks[k] ELSE Hole]

-----------------------------------------------------------------------------
(* The inputs the model draws from. *)

\* the watched URL and another URL present in the store
Url == "u"
OtherUrl == "o"

\* a page, the same page at another time of day, a page with other content,
\* and a page the parser rejects
PageA1 ==
  << StartTag("p"), Data(<<"U", "p", " ", "1", "0", ":", "1", "5", " ", "A", "M">>),
     EndTag("p"), StartTag("SCRIPT"), Data(<<"x">>), EndTag("script") >>
PageA2 ==
  << StartTag("p"), Data(<<"U", "p", " ", "1", "0", ":", "1", "6", " ", "A", "M">>),
     EndTag("p"), StartTag("SCRIPT"), Data(<<"x">>), EndTag("script") >>
PageB ==
  << Data(<<"D", "n", "\n">>), Data(<<" ", "2", "0", "2", "4", "-", "0", "1", "-", "0", "2">>) >>
PageBad == << Data(<<"U", "p">>), Reject >>

\* what fetch_html returns
Pages == {PageA1, PageA2, PageB, PageBad}

TextA == normalize_visible_text(PageA1)
TextB == normalize_visible_text(PageB)

\* entries a state file can hold for a URL
GoodEntry == Entry(content_hash(TextA), TextA, 0)
OtherEntry == Entry(content_hash(TextB), TextB, 0)
NotObjectEntry == JArray
BadHashEntry == JObject([hash |-> JInt(7), text |-> JStr(TextA), updated |-> JInt(0)])
BadTextEntry == JObject([hash |-> JStr(content_hash(TextA)), text |-> JInt(7), updated |-> JInt(0)])
BadUpdatedEntry == JObject([hash |-> JStr(content_hash(TextA)), text |-> JStr(TextA), updated |-> JStr(<<"x">>)])

MalformedEntries == {NotObjectEntry, BadHashEntry, BadTextEntry, BadUpdatedEntry}

\* what the file at the state path holds when run_watcher starts
InitialFiles ==
  {NoFile, Unreadable, Garbage, FileOf(JArray), FileOf(JNull),
   FileOf(JObject([o |-> OtherEntry]))}
  \cup {FileOf(JObject([u |-> e, o |-> OtherEntry])) :
          e \in {GoodEntry} \cup MalformedEntries}

\* the arguments of run_watcher the model varies
\* the largest --max-checks the model draws
MaxChecks == 2

\* the arguments of run_watcher the model varies; with once set max_checks
\* is never read, and quiet, which only silences the lines "Initialized
\* baseline." and "No change", is drawn for single-shot runs
Configs ==
  {c \in [once : BOOLEAN, quiet : BOOLEAN, no_sound : BOOLEAN, max_checks : 0..MaxChecks] :
     /\ c.once => c.max_checks = 0
     /\ c.quiet => c.once}

-----------------------------------------------------------------------------
(* State. *)

\* the instances of the watcher that can run
Inst == {1, 2}

\* inode numbers: the two names and one open file per instance
InodeIds == 1..4

VARIABLES
  procs,   \* the instances that run
  cfg,     \* the arguments of run_watcher
  clock,   \* time.time()
  names,   \* the directory: inode of the state path and of the .tmp path, 0 if absent
  inodes,  \* contents of the inodes
  fd,      \* the inode an instance has open for writing, 0 if none
  pos,     \* its file offset, in pieces
  pc,      \* where each instance is in run_watcher
  state,   \* run_watcher's state
  prev,    \* run_watcher's prev
  checks,  \* run_watcher's checks
  stop,    \* run_watcher's stop
  html,    \* the locals html, text, h, now of the loop body
  text,
  h,
  now,
  out,     \* what the current cycle has printed and played
  cyc,     \* history of the current and the preceding cycle
  persisted,  \* history: the instance has replaced the state file
  call     \* a call of one of the pure functions, outside run_watcher

fsvars == <<names, inodes, fd, pos>>
locals == <<html, text, h, now>>
vars ==
  <<procs, cfg, clock, names, inodes, fd, pos, pc, state, prev, checks, stop,
    html, text, h, now, out, cyc, persisted, call>>

\* nothing printed or played yet
NoOutput ==
  [baseline |-> FALSE, change |-> FALSE, diff |-> <<>>, nochange |-> FALSE,
   sound |-> 0, error |-> FALSE]

NoCycle ==
  [startPrev |-> None, startFile |-> NoFile, fetch |-> "none", completed |-> FALSE,
   lastFetch |-> "none", lastPage |-> <<>>, lastStartPrev |-> None, seen |-> <<>>,
   n |-> 0]

\* no pure function is being called on its own
NoCall == [fn |-> "none"]

\* the content of the file at the state path
PathContent == IF names.path = 0 THEN NoFile ELSE inodes[names.path]

\* the content of the .tmp file
TmpContent == IF names.tmp = 0 THEN NoFile ELSE inodes[names.tmp]

Referenced(nm, fds) == ({nm.path, nm.tmp} \cup {fds[p] : p \in Inst}) \ {0}

\* an inode nothing refers to is gone
Collect(ino, nm, fds) ==
  [i \in InodeIds |-> IF i \in Referenced(nm, fds) THEN ino[i] ELSE NoFile]

\* the inode a new file gets
Alloc(nm, fds) ==
  CHOOSE i \in InodeIds :
    /\ i \notin Referenced(nm, fds)
    /\ \A j \in InodeIds : j < i => j \in Referenced(nm, fds)

InitWith(ps, cfgs, files) ==
  /\ procs = ps
  /\ cfg \in cfgs
  /\ clock = 0
  /\ \E f \in files :
       /\ names = [path |-> IF f = NoFile THEN 0 ELSE 1, tmp |-> 0]
       /\ inodes = [i \in InodeIds |-> IF i = 1 THEN f ELSE NoFile]
  /\ fd = [p \in Inst |-> 0]
  /\ pos = [p \in Inst |-> 0]
  /\ pc = [p \in Inst |-> IF p \in ps THEN "start" ELSE "absent"]
  /\ state = [p \in Inst |-> None]
  /\ prev = [p \in Inst |-> None]
  /\ checks = [p \in Inst |-> 0]
  /\ stop = [p \in Inst |-> FALSE]
  /\ html = [p \in Inst |-> <<>>]
  /\ text = [p \in Inst |-> <<>>]
  /\ h = [p \in Inst |-> <<>>]
  /\ now = [p \in Inst |-> 0]
  /\ out = [p \in Inst |-> NoOutput]
  /\ cyc = [p \in Inst |-> NoCycle]
  /\ persisted = [p \in Inst |-> FALSE]

\* one watcher
Init == InitWith({1}, Configs, InitialFiles) /\ call = NoCall

\* two watchers started on the same URL and state path, each until its
\* first completed check
InitTwo ==
  InitWith({1, 2},
           {[once |-> FALSE, quiet |-> FALSE, no_sound |-> FALSE, max_checks |-> 1]},
           {FileOf(JObject([u |-> GoodEntry, o |-> OtherEntry]))})
  /\ call = NoCall

-----------------------------------------------------------------------------
(* run_watcher, one action per step.  pc names the statement an instance  *)
(* is about to run.                                                       *)

\* the statements inside the try block of the loop body
TryBlock ==
  {"fetch", "process", "compare", "assign", "save_open", "save_write",
   "save_replace", "setprev"}

\* "done": run_watcher returned 0; "crashed" and "interrupted": it was left
\* by an exception; "killed": the process is gone
Stopped == {"absent", "done", "crashed", "interrupted", "killed"}

\* the except clauses for URLError and Exception: log, and go on after the try
Logged(p) == [out EXCEPT ![p].error = TRUE]

\* lines 195-205: install the handler, load_state, parse_snapshot.  A
\* loaded value that is no dict has no get(): parse_snapshot raises
\* AttributeError out of run_watcher.
Start(p) ==
  /\ p \in procs
  /\ pc[p] = "start"
  /\ LET loaded == load_state(PathContent)
     IN /\ state' = [state EXCEPT ![p] = loaded]
        /\ IF loaded.t # "object"
           THEN /\ pc' = [pc EXCEPT ![p] = "crashed"]
                /\ UNCHANGED prev
           ELSE /\ pc' = [pc EXCEPT ![p] = "loop"]
                /\ prev' = [prev EXCEPT ![p] = parse_snapshot(loaded, Url)]
  /\ UNCHANGED <<call, procs, cfg, clock, fsvars, checks, stop, locals, out, cyc, persisted>>

\* line 213: while not stop; lines 255-257 when the loop ends
LoopCheck(p) ==
  /\ pc[p] = "loop"
  /\ IF stop[p]
     THEN /\ pc' = [pc EXCEPT ![p] = "done"]
          /\ UNCHANGED <<out, cyc, persisted>>
     ELSE /\ pc' = [pc EXCEPT ![p] = "fetch"]
          /\ out' = [out EXCEPT ![p] = NoOutput]
          /\ cyc' = [cyc EXCEPT ![p] =
                       [startPrev |-> prev[p], startFile |-> PathContent,
                        fetch |-> "none", completed |-> FALSE,
                        lastFetch |-> cyc[p].fetch,
                        lastPage |-> IF cyc[p].fetch = "ok" THEN html[p] ELSE <<>>,
                        lastStartPrev |->
                          IF cyc[p].fetch = "failed" THEN cyc[p].startPrev ELSE None,
                        seen |-> h[p], n |-> cyc[p].n + 1]]
  /\ UNCHANGED <<call, procs, cfg, clock, fsvars, state, prev, checks, stop, locals, persisted>>

\* line 215: fetch_html returns the page
FetchOK(p, page) ==
  /\ pc[p] = "fetch"
  /\ clock < MaxClock
  /\ clock' = clock + 1
  /\ html' = [html EXCEPT ![p] = page]
  /\ cyc' = [cyc EXCEPT ![p].fetch = "ok"]
  /\ pc' = [pc EXCEPT ![p] = "process"]
  /\ UNCHANGED <<call, procs, cfg, fsvars, state, prev, checks, stop, text, h, now, out, persisted>>

\* a handler for the fetch error that also drops the previous snapshot
FetchErrorForgets(p) ==
  /\ pc[p] = "fetch"
  /\ clock < MaxClock
  /\ clock' = clock + 1
  /\ cyc' = [cyc EXCEPT ![p].fetch = "failed"]
  /\ out' = Logged(p)
  /\ prev' = [prev EXCEPT ![p] = None]
  /\ pc' = [pc EXCEPT ![p] = "after"]
  /\ UNCHANGED <<call, procs, cfg, fsvars, state, checks, stop, locals, persisted>>

\* line 215: fetch_html raises URLError or another Exception (lines 238-241)
FetchError(p) ==
  /\ pc[p] = "fetch"
  /\ clock < MaxClock
  /\ clock' = clock + 1
  /\ cyc' = [cyc EXCEPT ![p].fetch = "failed"]
  /\ out' = Logged(p)
  /\ pc' = [pc EXCEPT ![p] = "after"]
  /\ UNCHANGED <<call, procs, cfg, fsvars, state, prev, checks, stop, locals, persisted>>

\* lines 216-219: normalize, hash, take the time, count the check
Process(p) ==
  /\ pc[p] = "process"
  /\ IF FeedRaises(html[p])
     THEN /\ out' = Logged(p)
          /\ pc' = [pc EXCEPT ![p] = "after"]
          /\ UNCHANGED <<text, h, now, checks>>
     ELSE /\ text' = [text EXCEPT ![p] = normalize_visible_text(html[p])]
          /\ h' = [h EXCEPT ![p] = content_hash(normalize_visible_text(html[p]))]
          /\ now' = [now EXCEPT ![p] = clock]
          /\ checks' = [checks EXCEPT ![p] = checks[p] + 1]
          /\ pc' = [pc EXCEPT ![p] = "compare"]
          /\ UNCHANGED out
  /\ UNCHANGED <<call, procs, cfg, clock, fsvars, state, prev, stop, html, cyc, persisted>>

\* play_sound: one of the players is started, or the bell is printed
play_sound(o) == [o EXCEPT !.sound = o.sound + 1]

\* lines 225-228: the change report and the alert
ReportChange(p) ==
  LET o == [out[p] EXCEPT !.change = TRUE, !.diff = <<prev[p].text, text[p]>>]
  IN IF ~cfg.no_sound THEN play_sound(o) ELSE o

\* a comparison that plays the alert for the baseline too
CompareAlertsBaseline(p) ==
  /\ pc[p] = "compare"
  /\ out' = [out EXCEPT ![p] =
               IF prev[p] = None
               THEN play_sound([out[p] EXCEPT !.baseline = ~cfg.quiet])
               ELSE IF h[p] # prev[p].hash THEN ReportChange(p)
               ELSE [out[p] EXCEPT !.nochange = ~cfg.quiet]]
  /\ pc' = [pc EXCEPT ![p] = "assign"]
  /\ UNCHANGED <<call, procs, cfg, clock, fsvars, state, prev, checks, stop, locals, cyc, persisted>>

\* lines 221-230: baseline, change or no change
Compare(p) ==
  /\ pc[p] = "compare"
  /\ out' = [out EXCEPT ![p] =
               IF prev[p] = None THEN [out[p] EXCEPT !.baseline = ~cfg.quiet]
               ELSE IF h[p] # prev[p].hash THEN ReportChange(p)
               ELSE [out[p] EXCEPT !.nochange = ~cfg.quiet]]
  /\ pc' = [pc EXCEPT ![p] = "assign"]
  /\ UNCHANGED <<call, procs, cfg, clock, fsvars, state, prev, checks, stop, locals, cyc, persisted>>

\* an assignment that leaves the entry alone when the digest is unchanged
AssignIfChanged(p) ==
  /\ pc[p] = "assign"
  /\ state' = [state EXCEPT ![p] =
                 IF prev[p] # None /\ h[p] = prev[p].hash THEN state[p]
                 ELSE Put(state[p], Url, Entry(h[p], text[p], now[p]))]
  /\ pc' = [pc EXCEPT ![p] = "save_open"]
  /\ UNCHANGED <<call, procs, cfg, clock, fsvars, prev, checks, stop, locals, out, cyc, persisted>>

\* an assignment that stores the new digest with the previous text
AssignStaleText(p) ==
  /\ pc[p] = "assign"
  /\ state' = [state EXCEPT ![p] =
                 Put(state[p], Url,
                     Entry(h[p], IF prev[p] = None THEN text[p] ELSE prev[p].text, now[p]))]
  /\ pc' = [pc EXCEPT ![p] = "save_open"]
  /\ UNCHANGED <<call, procs, cfg, clock, fsvars, prev, checks, stop, locals, out, cyc, persisted>>

\* line 232: state[url] = {...}
Assign(p) ==
  /\ pc[p] = "assign"
  /\ state' = [state EXCEPT ![p] = Put(state[p], Url, Entry(h[p], text[p], now[p]))]
  /\ pc' = [pc EXCEPT ![p] = "save_open"]
  /\ UNCHANGED <<call, procs, cfg, clock, fsvars, prev, checks, stop, locals, out, cyc, persisted>>

\* a save_state that opens the state path itself for writing
SaveOpenInPlace(p) ==
  /\ pc[p] = "save_open"
  /\ LET ino == IF names.path # 0 THEN names.path ELSE Alloc(names, fd)
     IN /\ names' = [names EXCEPT !.path = ino]
        /\ inodes' = [inodes EXCEPT ![ino] = Bytes(<<>>)]
        /\ fd' = [fd EXCEPT ![p] = ino]
  /\ pos' = [pos EXCEPT ![p] = 0]
  /\ pc' = [pc EXCEPT ![p] = "save_write"]
  /\ UNCHANGED <<call, procs, cfg, clock, state, prev, checks, stop, locals, out, cyc, persisted>>

\* save_state, lines 126-128: mkdir, then write_text opens the .tmp file for
\* writing, which creates it or truncates the file that is there
SaveOpen(p) ==
  /\ pc[p] = "save_open"
  /\ LET ino == IF names.tmp # 0 THEN names.tmp ELSE Alloc(names, fd)
     IN /\ names' = [names EXCEPT !.tmp = ino]
        /\ inodes' = [inodes EXCEPT ![ino] = Bytes(<<>>)]
        /\ fd' = [fd EXCEPT ![p] = ino]
  /\ pos' = [pos EXCEPT ![p] = 0]
  /\ pc' = [pc EXCEPT ![p] = "save_write"]
  /\ UNCHANGED <<call, procs, cfg, clock, state, prev, checks, stop, locals, out, cyc, persisted>>

\* save_state, line 128: write_text writes the next piece of
\* json.dumps(data, indent=2) + "\n", and closes the file after the last
SaveWrite(p) ==
  /\ pc[p] = "save_write"
  /\ LET piece == json_dumps(state[p])[pos[p] + 1]
         written == [inodes EXCEPT ![fd[p]] = Bytes(WriteAt(@.chunks, pos[p], piece))]
     IN IF pos[p] + 1 = DocChunks
        THEN /\ fd' = [fd EXCEPT ![p] = 0]
             /\ pos' = [pos EXCEPT ![p] = 0]
             /\ inodes' = Collect(written, names, fd')
             /\ pc' = [pc EXCEPT ![p] = "save_replace"]
        ELSE /\ inodes' = written
             /\ pos' = [pos EXCEPT ![p] = pos[p] + 1]
             /\ UNCHANGED <<fd, pc>>
  /\ UNCHANGED <<call, procs, cfg, clock, names, state, prev, checks, stop, locals, out, cyc, persisted>>

\* save_state, line 129: tmp.replace(path); FileNotFoundError when the .tmp
\* file is gone
SaveReplace(p) ==
  /\ pc[p] = "save_replace"
  /\ IF names.tmp = 0
     THEN /\ out' = Logged(p)
          /\ pc' = [pc EXCEPT ![p] = "after"]
          /\ UNCHANGED <<names, inodes, persisted>>
     ELSE /\ names' = [path |-> names.tmp, tmp |-> 0]
          /\ inodes' = Collect(inodes, names', fd)
          /\ pc' = [pc EXCEPT ![p] = "setprev"]
          /\ persisted' = [persisted EXCEPT ![p] = TRUE]
          /\ UNCHANGED out
  /\ UNCHANGED <<call, procs, cfg, clock, fd, pos, state, prev, checks, stop, locals, cyc>>

\* a failed save after which prev is advanced all the same
SaveErrorAdvances(p) ==
  /\ pc[p] \in {"save_open", "save_write", "save_replace"}
  /\ fd' = [fd EXCEPT ![p] = 0]
  /\ pos' = [pos EXCEPT ![p] = 0]
  /\ inodes' = Collect(inodes, names, fd')
  /\ out' = Logged(p)
  /\ prev' = [prev EXCEPT ![p] = Snapshot(Url, h[p], text[p], now[p])]
  /\ pc' = [pc EXCEPT ![p] = "after"]
  /\ UNCHANGED <<call, procs, cfg, clock, names, state, checks, stop, locals, cyc, persisted>>

\* save_state raises OSError (mkdir, open, write or replace fails); the
\* file is closed and the error logged (lines 240-241)
SaveError(p) ==
  /\ pc[p] \in {"save_open", "save_write", "save_replace"}
  /\ fd' = [fd EXCEPT ![p] = 0]
  /\ pos' = [pos EXCEPT ![p] = 0]
  /\ inodes' = Collect(inodes, names, fd')
  /\ out' = Logged(p)
  /\ pc' = [pc EXCEPT ![p] = "after"]
  /\ UNCHANGED <<call, procs, cfg, clock, names, state, prev, checks, stop, locals, cyc, persisted>>

\* line 234: prev = Snapshot(...)
SetPrev(p) ==
  /\ pc[p] = "setprev"
  /\ prev' = [prev EXCEPT ![p] = Snapshot(Url, h[p], text[p], now[p])]
  /\ cyc' = [cyc EXCEPT ![p].completed = TRUE]
  /\ pc' = [pc EXCEPT ![p] = "after"]
  /\ UNCHANGED <<call, procs, cfg, clock, fsvars, state, checks, stop, locals, out, persisted>>

\* an end of cycle that does not look at once
AfterIgnoresOnce(p) ==
  /\ pc[p] = "after"
  /\ pc' = [pc EXCEPT ![p] =
              IF cfg.max_checks > 0 /\ checks[p] >= cfg.max_checks THEN "done"
              ELSE "sleep"]
  /\ UNCHANGED <<call, procs, cfg, clock, fsvars, state, prev, checks, stop, locals, out, cyc, persisted>>

\* lines 243-248: once, max_checks
After(p) ==
  /\ pc[p] = "after"
  /\ pc' = [pc EXCEPT ![p] =
              IF cfg.once THEN "done"
              ELSE IF cfg.max_checks > 0 /\ checks[p] >= cfg.max_checks THEN "done"
              ELSE "sleep"]
  /\ UNCHANGED <<call, procs, cfg, clock, fsvars, state, prev, checks, stop, locals, out, cyc, persisted>>

\* lines 250-251: time.sleep(interval) returns
Sleep(p) ==
  /\ pc[p] = "sleep"
  /\ pc' = [pc EXCEPT ![p] = "loop"]
  /\ UNCHANGED <<call, procs, cfg, clock, fsvars, state, prev, checks, stop, locals, out, cyc, persisted>>

\* KeyboardInterrupt: inside the try block and in the sleep it breaks the
\* loop (lines 236-237, 252-253); anywhere else it leaves run_watcher as an
\* exception.  An open file is closed on the way out.  Signals are modelled
\* from the moment the loop is entered.
Interrupt(p) ==
  /\ p \in procs
  /\ pc[p] \notin Stopped \cup {"start"}
  /\ pc' = [pc EXCEPT ![p] =
              IF pc[p] \in TryBlock \cup {"sleep"} THEN "done" ELSE "interrupted"]
  /\ fd' = [fd EXCEPT ![p] = 0]
  /\ pos' = [pos EXCEPT ![p] = 0]
  /\ inodes' = Collect(inodes, names, fd')
  /\ UNCHANGED <<call, procs, cfg, clock, names, state, prev, checks, stop, locals, out, cyc, persisted>>

\* lines 198-202: SIGTERM runs _handle_sigterm once the handler is installed
Sigterm(p) ==
  /\ p \in procs
  /\ pc[p] \notin Stopped \cup {"start"}
  /\ ~stop[p]
  /\ stop' = [stop EXCEPT ![p] = TRUE]
  /\ UNCHANGED <<call, procs, cfg, clock, fsvars, pc, state, prev, checks, locals, out, cyc, persisted>>

\* the process is killed inside save_state, after the .tmp file was opened:
\* no handler runs and the file is left as it is
Kill(p) ==
  /\ p \in procs
  /\ pc[p] \in {"save_write", "save_replace"}
  /\ pc' = [pc EXCEPT ![p] = "killed"]
  /\ fd' = [fd EXCEPT ![p] = 0]
  /\ pos' = [pos EXCEPT ![p] = 0]
  /\ inodes' = Collect(inodes, names, fd')
  /\ UNCHANGED <<call, procs, cfg, clock, names, state, prev, checks, stop, locals, out, cyc, persisted>>

Next ==
  \/ \E p \in Inst : Start(p)
  \/ \E p \in Inst : LoopCheck(p)
  \/ \E p \in Inst, page \in Pages : FetchOK(p, page)
  \/ \E p \in Inst : FetchError(p)
  \/ \E p \in Inst : Process(p)
  \/ \E p \in Inst : Compare(p)
  \/ \E p \in Inst : Assign(p)
  \/ \E p \in Inst : SaveOpen(p)
  \/ \E p \in Inst : SaveWrite(p)
  \/ \E p \in Inst : SaveReplace(p)
  \/ \E p \in Inst : SaveError(p)
  \/ \E p \in Inst : SetPrev(p)
  \/ \E p \in Inst : After(p)
  \/ \E p \in Inst : Sleep(p)
  \/ \E p \in Inst : Interrupt(p)
  \/ \E p \in Inst : Sigterm(p)
  \/ \E p \in Inst : Kill(p)

\* one watcher on the state file
Spec == Init /\ [][Next]_vars

\* two watchers on the same state file
SpecTwo == InitTwo /\ [][Next]_vars

-----------------------------------------------------------------------------
(* The pure functions called on their own: no watcher runs, and call      *)
(* holds the arguments, the progress and the result of the call.          *)

\* no instance of run_watcher
NoWatcher ==
  InitWith({}, {[once |-> TRUE, quiet |-> FALSE, no_sound |-> FALSE, max_checks |-> 0]},
           {NoFile})

watcher ==
  <<procs, cfg, clock, names, inodes, fd, pos, pc, state, prev, checks, stop,
    html, text, h, now, out, cyc, persisted>>

\* the longest sequence of parser callbacks fed to an extractor
MaxEvents == 4

\* tag names and text the parser reports
EventTags == {"script", "style", "noscript", "p"}
Events ==
  {StartTag(t) : t \in EventTags} \cup {EndTag(t) : t \in EventTags}
  \cup {Data(<<"x">>), Data(<<" ">>)}

RECURSIVE SeqsUpTo(_, _)
SeqsUpTo(S, n) ==
  IF n = 0 THEN {<<>>}
  ELSE LET shorter == SeqsUpTo(S, n - 1)
       IN shorter \cup {Append(q, x) : q \in shorter, x \in S}

\* the elements of script, style and noscript that are open after an event,
\* innermost last: an end tag closes the innermost open element of its name
\* and the elements inside it, and is ignored when there is none
RECURSIVE CloseElement(_, _)
CloseElement(open, tag) ==
  IF open = <<>> THEN <<>>
  ELSE IF open[Len(open)] = tag THEN SubSeq(open, 1, Len(open) - 1)
  ELSE CloseElement(SubSeq(open, 1, Len(open) - 1), tag)

OpenAfter(open, ev) ==
  CASE ev.kind = "start" /\ Lower(ev.tag) \in SkipTags -> Append(open, Lower(ev.tag))
    [] ev.kind = "end" /\ \E i \in 1..Len(open) : open[i] = Lower(ev.tag) ->
         CloseElement(open, Lower(ev.tag))
    [] OTHER -> open

\* extractor = VisibleTextExtractor(), about to be fed a document
InitExtractor ==
  /\ NoWatcher
  /\ \E doc \in SeqsUpTo(Events, MaxEvents) :
       call = [fn |-> "feed", html |-> doc, fed |-> 0, ex |-> NewExtractor,
               open |-> <<>>, leaked |-> FALSE]

\* the parser makes its next callback
FeedEvent ==
  /\ call.fn = "feed"
  /\ call.fed < Len(call.html)
  /\ LET ev == call.html[call.fed + 1]
         ex == HandleEvent(call.ex, ev)
     IN call' = [call EXCEPT
                   !.fed = call.fed + 1,
                   !.ex = ex,
                   !.open = OpenAfter(call.open, ev),
                   !.leaked = call.leaked \/ (call.open # <<>> /\ ex.parts # call.ex.parts)]
  /\ UNCHANGED watcher

NextExtractor == FeedEvent

\* VisibleTextExtractor fed any document of at most MaxEvents callbacks
SpecExtractor == InitExtractor /\ [][NextExtractor]_vars

\* the most lines of a text print_diff is called with
MaxLines == 3

\* the largest --max-diff-lines drawn
MaxDiffLines == 2

\* canonical texts of at most MaxLines lines
LineNames == <<"A", "B", "C", "D">>
DiffLines == {<<LineNames[i]>> : i \in 1..Len(LineNames)}
DiffTexts == {JoinLines(ls) : ls \in SeqsUpTo(DiffLines, MaxLines)}

\* print_diff compares lines for equality only: the old texts are drawn up
\* to a renaming of the lines, each new line of old being the first name
\* not used before it
Rank(line) == CHOOSE i \in 1..Len(LineNames) : line = <<LineNames[i]>>
OldTexts ==
  {JoinLines(ls) : ls \in
     {q \in SeqsUpTo(DiffLines, MaxLines) :
        \A i \in 1..Len(q) :
          Rank(q[i]) <= 1 + Cardinality({q[j] : j \in 1..(i - 1)})}}

\* print_diff(old, new, max_lines) is entered
InitDiff ==
  /\ NoWatcher
  /\ \E old \in OldTexts, new \in DiffTexts, m \in 1..MaxDiffLines :
       call = [fn |-> "print_diff", old |-> old, new |-> new, max_lines |-> m,
               at |-> "diff", removed |-> <<>>, added |-> <<>>,
               printed |-> <<>>, removed_out |-> <<>>, added_out |-> <<>>]

\* lines 149-151: diff, removed, added
ComputeDiff ==
  /\ call.fn = "print_diff"
  /\ call.at = "diff"
  /\ LET diff == ndiff(splitlines(call.old), splitlines(call.new))
     IN call' = [call EXCEPT !.at = "removed",
                             !.removed = Tagged(diff, "-"),
                             !.added = Tagged(diff, "+")]
  /\ UNCHANGED watcher

\* line 163: _print_group("Removed", removed, "-")
PrintRemoved ==
  /\ call.fn = "print_diff"
  /\ call.at = "removed"
  /\ LET g == print_group("Removed", call.removed, "-", call.max_lines)
     IN call' = [call EXCEPT !.at = "added",
                             !.removed_out = g,
                             !.printed = call.printed \o g]
  /\ UNCHANGED watcher

\* line 164: _print_group("Added", added, "+")
PrintAdded ==
  /\ call.fn = "print_diff"
  /\ call.at = "added"
  /\ LET g == print_group("Added", call.added, "+", call.max_lines)
     IN call' = [call EXCEPT !.at = "done",
                             !.added_out = g,
                             !.printed = call.printed \o g]
  /\ UNCHANGED watcher

NextDiff == ComputeDiff \/ PrintRemoved \/ PrintAdded

\* print_diff called on any two texts of at most MaxLines lines
SpecDiff == InitDiff /\ [][NextDiff]_vars

\* the most tokens a text fragment of a page is made of
MaxTokens == 4

\* pieces of text around clock times and dates
Tokens ==
  { <<"1", ":">>, <<"1", ":", "1", "1">>, <<"1", "1">>, <<" ">>, <<"A", "M">>,
    <<"2", "0", "2", "4", "-", "0", "1", "-", "0", "2">>, <<"x">> }

RECURSIVE Concat(_)
Concat(ts) == IF ts = <<>> THEN <<>> ELSE Head(ts) \o Concat(Tail(ts))

\* pages of two text fragments, the first made of at most MaxTokens tokens
TokenPages ==
  { <<StartTag("p"), Data(Concat(ts)), EndTag("p"), Data(<<"x">>)>> :
      ts \in SeqsUpTo(Tokens, MaxTokens) }

\* normalize_visible_text(html) is entered
InitNormalize ==
  /\ NoWatcher
  /\ \E page \in TokenPages :
       call = [fn |-> "normalize", html |-> page, at |-> "html",
               text |-> <<>>, again |-> <<>>]

\* lines 90-109 on the page
Normalize ==
  /\ call.fn = "normalize"
  /\ call.at = "html"
  /\ call' = [call EXCEPT !.at = "text", !.text = normalize_visible_text(call.html)]
  /\ UNCHANGED watcher

\* lines 95-109 again, on the lines of the canonical text
Renormalize ==
  /\ call.fn = "normalize"
  /\ call.at = "text"
  /\ call' = [call EXCEPT !.at = "done",
                          !.again = JoinLines(NormalizeParts(splitlines(call.text)))]
  /\ UNCHANGED watcher

NextNormalize == Normalize \/ Renormalize

\* normalize_visible_text called on any of the pages, and its steps applied
\* to the result once more
SpecNormalize == InitNormalize /\ [][NextNormalize]_vars

-----------------------------------------------------------------------------
(* Properties of the watch loop and the store. *)

\* the entry of the watched URL in a file content, None when there is none
StoredEntry(content) ==
  LET d == load_state(content)
  IN IF d.t = "object" THEN Get(d, Url, None) ELSE None

\* the file is the beginning, or a damaged copy, of a written document
Partial(content) == content.kind = "bytes" /\ ~IsDocument(content)

\* the file holds no URL-to-snapshot mapping: it is missing, unreadable, not
\* JSON, or JSON that is no object
NoMapping(content) ==
  \/ content.kind \in {"missing", "unreadable", "garbage"}
  \/ IsDocument(content) /\ content.chunks[1][1].t # "object"

\* the cycle printed no change report and played no alert
Silent(p) == ~out[p].change /\ out[p].diff = <<>> /\ out[p].sound = 0

\* C1: a cycle whose fetch fails leaves the file at the state path and prev
\* as they were when the cycle started, and the cycle after it compares
\* against the prev the failed cycle started with.
C1FailureIsolation ==
  \A p \in procs :
    /\ cyc[p].fetch = "failed" =>
         /\ PathContent = cyc[p].startFile
         /\ prev[p] = cyc[p].startPrev
    /\ (cyc[p].lastFetch = "failed" /\ pc[p] = "compare") =>
         prev[p] = cyc[p].lastStartPrev

\* C1 witness: after a failed fetch, the next cycle is about to compare
\* against a stored snapshot
C1Witness ==
  \E p \in procs :
    /\ pc[p] = "compare"
    /\ cyc[p].lastFetch = "failed"
    /\ prev[p] # None

\* text and h are the canonical text and the digest of the fetched page
FromPage(p) ==
  /\ text[p] = normalize_visible_text(html[p])
  /\ h[p] = content_hash(text[p])

\* C2 as stated: a cycle that started without a prior snapshot and whose
\* fetch succeeded has, when its try block is over, printed no report,
\* played no alert and written the baseline to the store.
C2BaselineAlwaysWritten ==
  \A p \in procs :
    (pc[p] = "after" /\ cyc[p].startPrev = None /\ cyc[p].fetch = "ok") =>
      /\ Silent(p)
      /\ StoredEntry(PathContent) = Entry(h[p], text[p], now[p])
      /\ now[p] = clock

\* C2 amended: a cycle that started without a prior snapshot and whose fetch
\* succeeded prints no report and plays no alert; when it completes it has
\* written the baseline of the fetched page, and until it completes prev
\* stays absent, so the next successful fetch is a first cycle again.
C2Baseline ==
  \A p \in procs :
    (cyc[p].startPrev = None /\ cyc[p].fetch = "ok") =>
      /\ Silent(p)
      /\ cyc[p].completed =>
           /\ PathContent = FileOf(state[p])
           /\ StoredEntry(PathContent) = Entry(h[p], text[p], clock)
           /\ pc[p] = "after" => FromPage(p)
      /\ ~cyc[p].completed => prev[p] = None

\* C2 witness: a baseline cycle completed after an earlier cycle failed
C2Witness ==
  \E p \in procs :
    /\ cyc[p].startPrev = None
    /\ cyc[p].completed
    /\ cyc[p].lastFetch = "failed"
    /\ out[p].baseline
    /\ StoredEntry(PathContent) = Entry(h[p], text[p], now[p])

\* C3 as stated: a cycle that fetched the same HTML as the cycle before it
\* prints no change report and plays no alert.
C3Stable ==
  \A p \in procs :
    (cyc[p].fetch = "ok" /\ cyc[p].lastFetch = "ok" /\ html[p] = cyc[p].lastPage) =>
      Silent(p)

\* C4 as stated: play_sound runs at most once in a cycle, exactly once when
\* alerts are enabled and the cycle reported a change, never in a cycle that
\* reported none, and never for content whose digest the preceding check
\* already computed.
C4OncePerChange ==
  \A p \in procs :
    /\ out[p].sound <= 1
    /\ (out[p].change /\ ~cfg.no_sound) => out[p].sound = 1
    /\ ~out[p].change => out[p].sound = 0
    /\ out[p].sound > 0 => h[p] # cyc[p].seen

\* C5: a cycle that ran to the end of its try block has written the snapshot
\* of the page it fetched (digest, canonical text, the time of this cycle)
\* under the watched URL, whether it was a baseline, a stable or a changed
\* cycle.
C5FreshSnapshot ==
  \A p \in procs :
    cyc[p].completed =>
      /\ IsDocument(PathContent)
      /\ StoredEntry(PathContent) = Entry(h[p], text[p], clock)
      /\ pc[p] = "after" => FromPage(p)

\* C5 witness: a stable cycle has rewritten the entry with a later time
C5Witness ==
  \E p \in procs :
    /\ cyc[p].completed
    /\ cyc[p].startPrev # None
    /\ cyc[p].startPrev.hash = h[p]
    /\ out[p].nochange
    /\ StoredEntry(PathContent).m.updated.v > cyc[p].startPrev.updated

\* C6: once the loop has replaced the state file, the entry of the watched
\* URL in the file has a string digest that is content_hash of the string
\* text stored next to it.
C6DigestInSync ==
  \A p \in procs :
    persisted[p] =>
      LET e == StoredEntry(PathContent)
      IN /\ e.t = "object"
         /\ Get(e, "hash", None).t = "str"
         /\ Get(e, "text", None).t = "str"
         /\ e.m.hash.v = content_hash(e.m.text.v)

\* C6 witness: a changed cycle has been persisted after a failed save
C6Witness ==
  \E p \in procs :
    /\ persisted[p]
    /\ cyc[p].completed
    /\ out[p].change
    /\ StoredEntry(PathContent).m.text.v # cyc[p].startPrev.text

\* C7 as stated: while the file at the state path holds no mapping,
\* run_watcher has not crashed, its state is the empty mapping and prev is
\* absent.
C7CorruptTolerated ==
  \A p \in procs :
    (pc[p] # "start" /\ NoMapping(PathContent)) =>
      /\ pc[p] # "crashed"
      /\ state[p].t = "object"
      /\ prev[p] = None

\* the entry run_watcher loaded for the watched URL: the one in the state
\* file, as long as the instance has not replaced the file
Loaded(p) == pc[p] # "start" /\ ~persisted[p] /\ StoredEntry(PathContent) # None

\* the fields of an entry that is an object
HashOf(e) == Get(e, "hash", None)
TextOf(e) == Get(e, "text", JStr(<<>>))
UpdatedOf(e) == Get(e, "updated", JInt(0))

\* an entry with a field of the wrong type
Malformed(e) ==
  \/ e.t # "object"
  \/ HashOf(e).t # "str"
  \/ TextOf(e).t # "str"
  \/ UpdatedOf(e).t # "int"

C9AtomicPersistence ==
  /\ [](~Partial(PathContent))
  /\ [][PathContent' # PathContent =>
          \E p \in procs :
            /\ pc[p] = "save_replace"
            /\ pc'[p] = "setprev"
            /\ PathContent' = FileOf(state[p])]_vars

\* C9 witness: the process died between the temporary write and the replace,
\* or inside the write, and the state file still is the previous document
C9Witness ==
  \E p \in procs :
    /\ pc[p] = "killed"
    /\ names.tmp # 0
    /\ TmpContent # PathContent
    /\ IsDocument(PathContent)

\* C10 as stated: with two instances saving to the same path, the file at the
\* state path is never a partial document.
C10NoPartialWithTwo == Partial(PathContent) = FALSE

\* C11 as stated: the skip depth is never negative, and text inside a
\* script, style or noscript element is never appended to the fragments,
\* also when elements nest and when close tags do not match.
C11SkipRegionExcluded ==
  call.fn = "feed" => (call.ex.skip_depth >= 0 /\ ~call.leaked)

\* the lines of a that are no line of b, in the order of a
OnlyIn(a, b) == SelectSeq(a, LAMBDA l : \A i \in 1..Len(b) : b[i] # l)

\* C12 as stated: the removed lines are exactly the lines present only in
\* old and the added lines exactly the lines present only in new, so that
\* unchanged and reordered lines are in neither group.
C12DiffExact ==
  (call.fn = "print_diff" /\ call.at # "diff") =>
    /\ call.removed = OnlyIn(splitlines(call.old), splitlines(call.new))
    /\ call.added = OnlyIn(splitlines(call.new), splitlines(call.old))

\* what a group printed: its label, its lines, its summary
LinesOf(g) == SelectSeq(g, LAMBDA x : x.kind = "line")
MoreOf(g) == SelectSeq(g, LAMBDA x : x.kind = "more")

\* a group of n lines printed with limit m: nothing when n = 0; else the
\* label, the first min(n, m) lines, and the summary "n - m more" exactly
\* when n > m
Truncated(g, label, lines, m) ==
  LET n == Len(lines)
  IN IF n = 0 THEN g = <<>>
     ELSE /\ g[1] = [kind |-> "label", label |-> label]
          /\ Len(LinesOf(g)) = (IF n < m THEN n ELSE m)
          /\ \A i \in 1..Len(LinesOf(g)) : LinesOf(g)[i].line = lines[i]
          /\ IF n > m
             THEN MoreOf(g) = <<[kind |-> "more", n |-> n - m]>> /\ g[Len(g)].kind = "more"
             ELSE MoreOf(g) = <<>>
          /\ Len(g) = 1 + Len(LinesOf(g)) + Len(MoreOf(g))

\* C13: each group is printed truncated on its own: min(n, m) lines are
\* shown, the summary of n - m more lines is printed exactly when n > m,
\* and a group without lines prints nothing, not even its label.
C13Truncation ==
  call.fn = "print_diff" =>
    /\ call.at \in {"added", "done"} =>
         Truncated(call.removed_out, "Removed", call.removed, call.max_lines)
    /\ call.at = "done" =>
         /\ Truncated(call.added_out, "Added", call.added, call.max_lines)
         /\ call.printed = call.removed_out \o call.added_out

\* C13 witness: one group is cut and summarised, the other is printed whole
C13Witness ==
  /\ call.fn = "print_diff"
  /\ call.at = "done"
  /\ Len(call.removed) > call.max_lines
  /\ MoreOf(call.removed_out) # <<>>
  /\ call.added # <<>>
  /\ MoreOf(call.added_out) = <<>>

\* C14 as stated: the normalization steps applied to a canonical text give
\* the same text.
C14Idempotent ==
  (call.fn = "normalize" /\ call.at = "done") => call.again = call.text

\* C15 as stated: with max_checks = N > 0 and without once, run_watcher
\* never starts more than N cycles, and after the N-th cycle it does not go
\* to sleep for another one, whether the fetches succeed or fail.
C15MaxCycles ==
  \A p \in procs :
    (cfg.max_checks > 0 /\ ~cfg.once) =>
      /\ cyc[p].n <= cfg.max_checks
      /\ cyc[p].n = cfg.max_checks => pc[p] # "sleep"

\* C16: with once set, an instance that entered the loop starts one cycle
\* and no second one and never sleeps; when the try statement of that cycle
\* is over, whether the cycle succeeded, failed in the fetch, or failed in
\* processing or saving, the step the instance takes returns 0.  (Zero
\* cycles are run only when SIGTERM set stop before the first loop test.)
C16SingleShot ==
  /\ [](\A p \in procs :
          cfg.once =>
            /\ cyc[p].n <= 1
            /\ pc[p] # "sleep"
            /\ pc[p] = "after" => cyc[p].n = 1
            /\ (pc[p] = "done" /\ ~stop[p]) => cyc[p].n = 1)
  /\ [][\A p \in procs :
          (cfg.once /\ pc[p] = "after" /\ pc'[p] \notin {"after", "interrupted"}) =>
            pc'[p] = "done"]_vars

\* C16 witness: a single-shot run returned after a cycle whose fetch
\* succeeded and whose processing or saving failed
C16Witness ==
  \E p \in procs :
    /\ cfg.once
    /\ pc[p] = "done"
    /\ ~stop[p]
    /\ cyc[p].n = 1
    /\ cyc[p].fetch = "ok"
    /\ out[p].error

\* C17 as stated: once SIGTERM has set stop no new cycle is started, and a
\* process interrupt, like SIGTERM, ends the loop cleanly: run_watcher is
\* never left by the exception.
C17CooperativeCancellation ==
  /\ [][\A p \in procs : stop[p] => ~(pc[p] = "loop" /\ pc'[p] = "fetch")]_vars
  /\ [](\A p \in procs : pc[p] # "interrupted")

\* the steps between the update of the in-memory mapping and the replace
Writing == {"save_open", "save_write", "save_replace"}

\* C18 as stated: a cancellation that arrives after the mapping was updated
\* or during save_state is honoured only when the write is complete: no
\* instance leaves the loop from inside the write.
C18WriteCompletes ==
  [][\A p \in procs : pc[p] \in Writing => pc'[p] \notin {"done", "interrupted"}]_vars

\* the URLs that have an entry in a file content
Keys(content) ==
  LET d == load_state(content)
  IN IF d.t = "object" THEN DOMAIN d.m ELSE {}

\* C19: with one instance, no step removes an entry from the mapping in the
\* file at the state path, and no step changes the entry of a URL other
\* than the watched one: every save writes them back as they were loaded.
C19Frame ==
  [][\A k \in Keys(PathContent) :
       /\ k \in Keys(PathContent')
       /\ k # Url => load_state(PathContent').m[k] = load_state(PathContent).m[k]]_vars

\* C19 witness: the instance added the entry of the watched URL to a file
\* that held only the entry of another URL, which is still there
C19Witness ==
  \E p \in procs :
    /\ persisted[p]
    /\ StoredEntry(cyc[p].startFile) = None
    /\ StoredEntry(PathContent) # None
    /\ OtherUrl \in Keys(PathContent)
    /\ load_state(PathContent).m[OtherUrl] = OtherEntry

\* between two cycles: the try statement is over and the next has not begun
CycleBoundary(p) == pc[p] \in {"after", "sleep", "loop"}

\* C20: with one instance, at every cycle boundary after the instance first
\* replaced the state file, prev has the digest and the text of the entry of
\* the watched URL in the file; and at the boundary after a cycle that
\* failed (in the fetch, the processing or the save) prev and the file are
\* what they were when the cycle started.
C20BaselineConsistent ==
  \A p \in procs :
    CycleBoundary(p) =>
      /\ persisted[p] =>
           LET e == StoredEntry(PathContent)
           IN /\ prev[p] # None
              /\ e.t = "object"
              /\ HashOf(e) = JStr(prev[p].hash)
              /\ TextOf(e) = JStr(prev[p].text)
      /\ (cyc[p].n > 0 /\ ~cyc[p].completed) =>
           /\ prev[p] = cyc[p].startPrev
           /\ PathContent = cyc[p].startFile

\* C20 witness: after a persisted cycle, a cycle that fetched a page with
\* another digest failed in the save
C20Witness ==
  \E p \in procs :
    /\ pc[p] = "after"
    /\ persisted[p]
    /\ ~cyc[p].completed
    /\ cyc[p].fetch = "ok"
    /\ out[p].change
    /\ out[p].error
    /\ prev[p].hash # h[p]

=============================================================================
